---- MODULE Spec2Model ----
(***************************************************************************)
(* easy_sql/sql_helper.py: the two adapters SqliteDB and MysqlDB, one      *)
(* database each, driven by a sequential caller.  A state is the database  *)
(* (does it exist, its tables), the connections opened and not closed, and *)
(* the record of the last call (its arguments, the database before it, and *)
(* what the caller observed: return value, printed message, exception).    *)
(*                                                                         *)
(* SQL text is a sequence of tokens, built the way the code builds its     *)
(* strings (join, interpolation), and the database engine parses it.       *)
(*                                                                         *)
(* Each call is one step; between two calls the caller takes the outcome   *)
(* (Return).  A call may find the backend unreachable (reach = FALSE).     *)
(* MysqlDB.__init__ raises after binding self.db_config; the MysqlDB       *)
(* methods are modelled on an object whose db_config is bound.  Tables are *)
(* created with foreign_keys=None.                                         *)
(***************************************************************************)
EXTENDS Integers, Sequences, FiniteSets, TLC

VARIABLES kind, inst, dbExists, tables, open, last, race

vars == <<kind, inst, dbExists, tables, open, last, race>>

\* ------------------------------------------------------------------ bounds
MaxRows == 2
MaxOpen == 1
\* Two concurrent inserts start on a table that has room for both rows.
MaxRaceRows == 3

\* ------------------------------------------------------------------ values
\* Python None, bound by both drivers as SQL NULL.
Null == "NULL"
Values == {Null, "x", "y"}

\* The column names callers use, in the order a dict literal lists them.
Columns == <<"email", "name">>
ColSet == {Columns[i] : i \in 1..Len(Columns)}
TableNames == {"employees"}
\* The table names of a database with two tables, in the order of a listing.
TableOrder == <<"employees", "old_employees">>

\* A dict argument (data): a mapping from some columns to values.
Dicts == UNION {[D -> Values] : D \in SUBSET ColSet}

\* data.keys() and data.values(), in insertion order.
Keys(data) == SelectSeq(Columns, LAMBDA c : c \in DOMAIN data)
ValuesOf(data) == [i \in 1..Len(Keys(data)) |-> data[Keys(data)[i]]]

\* ------------------------------------------------------------- SQL text
\* The value placeholder of each driver.
Placeholder(k) == IF k = "sqlite" THEN "?" ELSE "%s"

\* sep.join(items): the items' text with sep between neighbours.  An item
\* and sep are token sequences.
RECURSIVE Join(_, _)
Join(items, sep) ==
  IF Len(items) = 0 THEN <<>>
  ELSE IF Len(items) = 1 THEN items[1]
  ELSE items[1] \o sep \o Join(Tail(items), sep)

\* A sequence of names as a sequence of one-token items.
Words(names) == [i \in 1..Len(names) |-> <<names[i]>>]

\* str(list) of a Python list of names, as an f-string interpolates it:
\* ['email', 'name'].
Quoted(name) == IF name = "email" THEN "'email'" ELSE "'name'"
ReprList(items) ==
  <<"[">> \o Join([i \in 1..Len(items) |-> <<Quoted(items[i])>>], <<",">>)
          \o <<"]">>

Literals == {"'x'", "'y'", "NULL", "'email'", "'name'"}
LitValue(tok) ==
  IF tok = "'x'" THEN "x" ELSE IF tok = "'y'" THEN "y"
  ELSE IF tok = "NULL" THEN Null ELSE tok
Reserved == {",", "=", "AND", "[", "]", "*", "?", "%s", "TEXT", "UNIQUE"}
IsIdent(tok) == tok \notin Reserved /\ tok \notin Literals

\* SQL comparison: NULL equals nothing, not even NULL.
SqlEq(a, b) == a # Null /\ b # Null /\ a = b

\* The engine's parse of a select list: * or names separated by commas.
RECURSIVE ParseNames(_)
ParseNames(toks) ==
  IF Len(toks) = 0 \/ ~IsIdent(toks[1]) THEN [ok |-> FALSE, names |-> <<>>]
  ELSE IF Len(toks) = 1 THEN [ok |-> TRUE, names |-> <<toks[1]>>]
  ELSE IF toks[2] # "," THEN [ok |-> FALSE, names |-> <<>>]
  ELSE LET rest == ParseNames(SubSeq(toks, 3, Len(toks)))
       IN  [ok |-> rest.ok,
            names |-> IF rest.ok THEN <<toks[1]>> \o rest.names ELSE <<>>]

\* The engine's parse of comparisons "name = value" separated by sep, a value
\* being a placeholder of this driver or a literal: a WHERE clause (sep AND)
\* or a SET clause (sep a comma).
RECURSIVE ParseComparisons(_, _, _)
ParseComparisons(k, toks, sep) ==
  IF Len(toks) < 3 \/ ~IsIdent(toks[1]) \/ toks[2] # "="
     \/ ~(toks[3] = Placeholder(k) \/ toks[3] \in Literals)
  THEN [ok |-> FALSE, atoms |-> <<>>]
  ELSE LET atom == [col |-> toks[1], ph |-> toks[3] = Placeholder(k),
                    val |-> LitValue(toks[3])]
       IN  IF Len(toks) = 3 THEN [ok |-> TRUE, atoms |-> <<atom>>]
           ELSE IF toks[4] # sep THEN [ok |-> FALSE, atoms |-> <<>>]
           ELSE LET rest == ParseComparisons(k, SubSeq(toks, 5, Len(toks)), sep)
                IN  [ok |-> rest.ok,
                     atoms |-> IF rest.ok THEN <<atom>> \o rest.atoms ELSE <<>>]

ParseWhere(k, toks) == ParseComparisons(k, toks, "AND")
ParseSet(k, toks) == ParseComparisons(k, toks, ",")

\* The engine's parse of column definitions "name type [UNIQUE]" separated by
\* commas.
RECURSIVE ParseDefs(_)
ParseDefs(toks) ==
  IF Len(toks) < 2 \/ ~IsIdent(toks[1]) \/ toks[2] # "TEXT"
  THEN [ok |-> FALSE, cols |-> <<>>, uniq |-> {}]
  ELSE LET u == Len(toks) >= 3 /\ toks[3] = "UNIQUE"
           n == IF u THEN 3 ELSE 2
       IN  IF Len(toks) = n
           THEN [ok |-> TRUE, cols |-> <<toks[1]>>,
                 uniq |-> IF u THEN {toks[1]} ELSE {}]
           ELSE IF toks[n + 1] # "," THEN [ok |-> FALSE, cols |-> <<>>, uniq |-> {}]
           ELSE LET rest == ParseDefs(SubSeq(toks, n + 2, Len(toks)))
                IN  IF rest.ok
                    THEN [ok |-> TRUE, cols |-> <<toks[1]>> \o rest.cols,
                          uniq |-> (IF u THEN {toks[1]} ELSE {}) \cup rest.uniq]
                    ELSE [ok |-> FALSE, cols |-> <<>>, uniq |-> {}]

\* The number of placeholders of a parsed WHERE clause.
NumPlaceholders(atoms) == Cardinality({i \in 1..Len(atoms) : atoms[i].ph})

\* The parsed comparisons with the parameters bound to the placeholders, in
\* order (the parameters are as many as the placeholders).
RECURSIVE Bind(_, _)
Bind(atoms, params) ==
  IF Len(atoms) = 0 THEN <<>>
  ELSE IF atoms[1].ph
       THEN <<[col |-> atoms[1].col, val |-> params[1]]>>
            \o Bind(Tail(atoms), Tail(params))
       ELSE <<[col |-> atoms[1].col, val |-> atoms[1].val]>>
            \o Bind(Tail(atoms), params)

\* A stored row satisfies every bound comparison.
Matches(row, bound) ==
  \A i \in 1..Len(bound) : SqlEq(row[bound[i].col], bound[i].val)

\* ------------------------------------------------------------ the engine
\* A table of the database: its columns in declaration order, the columns
\* declared UNIQUE, and its rows in insertion order (each a mapping from the
\* table's columns to values).
NoTable == [exists |-> FALSE, cols |-> <<>>, uniq |-> {}, rows |-> <<>>]
Range(s) == {s[i] : i \in 1..Len(s)}
Distinct(s) == \A i, j \in 1..Len(s) : i # j => s[i] # s[j]

\* No two rows are equal (SQL-equal, so NULLs never collide) on a UNIQUE column.
UniqueOk(uniq, rows) ==
  \A u \in uniq : \A i, j \in 1..Len(rows) :
    i # j => ~SqlEq(rows[i][u], rows[j][u])

\* CREATE TABLE <t> (<defs>) without IF NOT EXISTS.
ExecCreateTableStrict(tbl, defToks) ==
  LET p == ParseDefs(defToks)
  IN  IF ~p.ok \/ tbl.exists \/ ~Distinct(p.cols) THEN [err |-> TRUE, tbl |-> tbl]
      ELSE [err |-> FALSE,
            tbl |-> [exists |-> TRUE, cols |-> p.cols, uniq |-> p.uniq,
                     rows |-> <<>>]]

\* CREATE TABLE IF NOT EXISTS <t> (<defs>)
ExecCreateTable(tbl, defToks) ==
  LET p == ParseDefs(defToks)
  IN  IF ~p.ok THEN [err |-> TRUE, tbl |-> tbl]
      ELSE IF tbl.exists THEN [err |-> FALSE, tbl |-> tbl]
      ELSE IF ~Distinct(p.cols) THEN [err |-> TRUE, tbl |-> tbl]
      ELSE [err |-> FALSE,
            tbl |-> [exists |-> TRUE, cols |-> p.cols, uniq |-> p.uniq,
                     rows |-> <<>>]]

\* INSERT INTO <t> (<columns>) VALUES (<placeholders>), with params bound.
\* An empty column list with an empty value list is MySQL syntax only.
ExecInsert(k, tbl, colToks, phToks, params) ==
  LET p == IF colToks = <<>> /\ k = "mysql"
           THEN [ok |-> TRUE, names |-> <<>>] ELSE ParseNames(colToks)
      nph == Cardinality({i \in 1..Len(phToks) : phToks[i] = Placeholder(k)})
      idx(c) == CHOOSE i \in 1..Len(p.names) : p.names[i] = c
      row == [c \in Range(tbl.cols) |->
                IF c \in Range(p.names) THEN params[idx(c)] ELSE Null]
      rows == Append(tbl.rows, row)
  IN  IF ~tbl.exists \/ ~p.ok \/ ~Distinct(p.names)
         \/ ~(Range(p.names) \subseteq Range(tbl.cols))
         \/ phToks # Join([i \in 1..Len(p.names) |-> <<Placeholder(k)>>], <<",">>)
         \/ Len(params) # nph
      THEN [err |-> TRUE, tbl |-> tbl]
      ELSE IF ~UniqueOk(tbl.uniq, rows) THEN [err |-> TRUE, tbl |-> tbl]
      ELSE [err |-> FALSE, tbl |-> [tbl EXCEPT !.rows = rows]]

\* SELECT COUNT(*) FROM <t> WHERE <where>, with params bound.
ExecCount(k, tbl, whereToks, params) ==
  LET p == ParseWhere(k, whereToks)
  IN  IF ~tbl.exists \/ ~p.ok
         \/ ~(\A i \in 1..Len(p.atoms) : p.atoms[i].col \in Range(tbl.cols))
         \/ Len(params) # NumPlaceholders(p.atoms)
      THEN [err |-> TRUE, count |-> 0]
      ELSE LET b == Bind(p.atoms, params)
           IN  [err |-> FALSE,
                count |-> Cardinality({i \in 1..Len(tbl.rows) :
                                         Matches(tbl.rows[i], b)})]

\* UPDATE <t> SET <set> WHERE <where>, with params bound (SET first).
ExecUpdate(k, tbl, setToks, whereToks, params) ==
  LET s == ParseSet(k, setToks)
      w == ParseWhere(k, whereToks)
      all == s.atoms \o w.atoms
  IN  IF ~tbl.exists \/ ~s.ok \/ ~w.ok
         \/ ~(\A i \in 1..Len(all) : all[i].col \in Range(tbl.cols))
         \/ Len(params) # NumPlaceholders(all)
      THEN [err |-> TRUE, tbl |-> tbl]
      ELSE LET b == Bind(all, params)
               sb == SubSeq(b, 1, Len(s.atoms))
               wb == SubSeq(b, Len(s.atoms) + 1, Len(b))
               \* the last assignment to a column wins
               new(c, old) ==
                 IF \E i \in 1..Len(sb) : sb[i].col = c
                 THEN sb[CHOOSE i \in 1..Len(sb) : sb[i].col = c
                         /\ \A j \in 1..Len(sb) : sb[j].col = c => j <= i].val
                 ELSE old
               rows == [i \in 1..Len(tbl.rows) |->
                          IF Matches(tbl.rows[i], wb)
                          THEN [c \in Range(tbl.cols) |-> new(c, tbl.rows[i][c])]
                          ELSE tbl.rows[i]]
           IN  IF ~UniqueOk(tbl.uniq, rows) THEN [err |-> TRUE, tbl |-> tbl]
               ELSE [err |-> FALSE, tbl |-> [tbl EXCEPT !.rows = rows]]

\* DELETE FROM <t> WHERE <where>, with params bound.
ExecDelete(k, tbl, whereToks, params) ==
  LET w == ParseWhere(k, whereToks)
  IN  IF ~tbl.exists \/ ~w.ok
         \/ ~(\A i \in 1..Len(w.atoms) : w.atoms[i].col \in Range(tbl.cols))
         \/ Len(params) # NumPlaceholders(w.atoms)
      THEN [err |-> TRUE, tbl |-> tbl]
      ELSE LET b == Bind(w.atoms, params)
           IN  [err |-> FALSE,
                tbl |-> [tbl EXCEPT !.rows =
                           SelectSeq(tbl.rows, LAMBDA r : ~Matches(r, b))]]

\* SELECT <columns> FROM <t> [WHERE <where>], with params bound: the matching
\* rows in insertion order, each a tuple of the selected columns.
ExecSelect(k, tbl, colToks, hasWhere, whereToks, params) ==
  LET c == IF colToks = <<"*">> THEN [ok |-> TRUE, names |-> tbl.cols]
           ELSE ParseNames(colToks)
      w == IF hasWhere THEN ParseWhere(k, whereToks)
           ELSE [ok |-> TRUE, atoms |-> <<>>]
  IN  IF ~tbl.exists \/ ~c.ok \/ ~w.ok
         \/ ~(Range(c.names) \subseteq Range(tbl.cols))
         \/ ~(\A i \in 1..Len(w.atoms) : w.atoms[i].col \in Range(tbl.cols))
         \/ Len(params) # NumPlaceholders(w.atoms)
      THEN [err |-> TRUE, rows |-> <<>>]
      ELSE LET b == Bind(w.atoms, params)
               hit == SelectSeq(tbl.rows, LAMBDA r : Matches(r, b))
           IN  [err |-> FALSE,
                rows |-> [i \in 1..Len(hit) |->
                            [j \in 1..Len(c.names) |-> hit[i][c.names[j]]]]]

\* ------------------------------------------------------------- the adapters
\* What a call did: whether the database exists after it, the table after
\* it, what it returned ("None", "True", "False", or "rows" with the rows),
\* the exception that escaped it ("" when none), the messages it printed,
\* and the connections it opened and did not close.
Out(db, tbl, ret, rows, raised, printed, leaked) ==
  [dbExists |-> db, tbl |-> tbl, ret |-> ret, rows |-> rows,
   raised |-> raised, printed |-> printed, leaked |-> leaked]

\* sqlite3.connect(database) opens the file, creating it when absent; it
\* raises sqlite3.OperationalError when the file cannot be opened.
SqliteConnects(reach) == reach

\* MysqlDB.connect: mysql.connector.connect(**self.db_config) selects the
\* database, so it raises mysql.connector.Error when the server is
\* unreachable or the database does not exist.
MysqlConnects(reach, db) == reach /\ db

\* SqliteDB.create: creates the file unless the directory listing has it.
SqliteCreate(db, tbl, reach) ==
  IF db THEN Out(db, tbl, "None", <<>>, "", <<"exists">>, 0)
  ELSE IF SqliteConnects(reach)
       THEN Out(TRUE, tbl, "None", <<>>, "", <<"created">>, 0)
       ELSE Out(db, tbl, "None", <<>>, "", <<"error">>, 0)

\* SqliteDB.__init__
SqliteInit(db, tbl, reach) == SqliteCreate(db, tbl, reach)

\* MysqlDB.create: connects without selecting a database.  When the connect
\* fails, the handler prints and the finally clause reads the unbound conn.
MysqlCreate(db, tbl, reach) ==
  IF reach THEN Out(TRUE, tbl, "None", <<>>, "", <<"created">>, 0)
  ELSE Out(db, tbl, "None", <<>>, "UnboundLocalError", <<"error">>, 0)

\* MysqlDB.__init__: binds self.db_config, then calls self.create_db, a
\* method the class does not define.
MysqlInit(db, tbl, reach) ==
  Out(db, tbl, "None", <<>>, "AttributeError", <<>>, 0)

\* return count > 0
CountOffByOne(count) == IF count > 1 THEN "True" ELSE "False"
HasDuplicate(count) == IF count > 0 THEN "True" ELSE "False"

\* if not conditions: return False
NoConditionsTrue == "True"
NoConditions == "False"

\* SqliteDB.is_duplicate
SqliteIsDuplicate(db, tbl, reach, data, uniq) ==
  IF uniq = <<>> THEN Out(db, tbl, "False", <<>>, "", <<>>, 0)
  ELSE IF ~SqliteConnects(reach)
  THEN Out(db, tbl, "None", <<>>, "OperationalError", <<>>, 0)
  ELSE LET present == SelectSeq(uniq, LAMBDA c : c \in DOMAIN data)
           conditions == [i \in 1..Len(present) |-> <<present[i], "=", "?">>]
           params == [i \in 1..Len(present) |-> data[present[i]]]
           r == ExecCount("sqlite", tbl, Join(conditions, <<"AND">>), params)
       IN  IF conditions = <<>> THEN Out(TRUE, tbl, NoConditions, <<>>, "", <<>>, 0)
           ELSE IF r.err
           THEN Out(TRUE, tbl, "False", <<>>, "", <<"error">>, 0)
           ELSE Out(TRUE, tbl, HasDuplicate(r.count),
                    <<>>, "", <<>>, 0)

\* MysqlDB.is_duplicate
MysqlIsDuplicate(db, tbl, reach, data, uniq) ==
  IF uniq = <<>> THEN Out(db, tbl, "False", <<>>, "", <<>>, 0)
  ELSE IF ~MysqlConnects(reach, db)
  THEN Out(db, tbl, "None", <<>>, "UnboundLocalError", <<"error">>, 0)
  ELSE LET present == SelectSeq(uniq, LAMBDA c : c \in DOMAIN data)
           conditions == [i \in 1..Len(uniq) |-> <<uniq[i], "=", "%s">>]
           params == [i \in 1..Len(present) |-> data[present[i]]]
           r == ExecCount("mysql", tbl, Join(conditions, <<"AND">>), params)
       IN  IF r.err
           THEN Out(db, tbl, "False", <<>>, "", <<"error">>, 0)
           ELSE Out(db, tbl, HasDuplicate(r.count),
                    <<>>, "", <<>>, 0)

IsDuplicate(k, db, tbl, reach, data, uniq) ==
  IF k = "sqlite" THEN SqliteIsDuplicate(db, tbl, reach, data, uniq)
  ELSE MysqlIsDuplicate(db, tbl, reach, data, uniq)

\* SqliteDB.insert
SqliteInsert(db, tbl, reach, data, uniq) ==
  LET d == SqliteIsDuplicate(db, tbl, reach, data, uniq)
      columns == Join(Words(Keys(data)), <<",">>)
      placeholders == Join([i \in 1..Len(Keys(data)) |-> <<"?">>], <<",">>)
      r == ExecInsert("sqlite", tbl, columns, placeholders, ValuesOf(data))
  IN  IF uniq # <<>> /\ d.raised # "" THEN d
      ELSE IF uniq # <<>> /\ d.ret = "True"
      THEN Out(d.dbExists, tbl, "False", <<>>, "", d.printed \o <<"skipped">>, 0)
      ELSE LET pr == IF uniq # <<>> THEN d.printed ELSE <<>>
           IN  IF ~SqliteConnects(reach)
               THEN Out(db, tbl, "None", <<>>, "OperationalError", pr, 0)
               ELSE IF r.err
               THEN Out(TRUE, tbl, "False", <<>>, "", pr \o <<"error">>, 0)
               ELSE Out(TRUE, r.tbl, "True", <<>>, "", pr \o <<"inserted">>, 0)

\* MysqlDB.insert
MysqlInsert(db, tbl, reach, data, uniq) ==
  LET d == MysqlIsDuplicate(db, tbl, reach, data, uniq)
      columns == Join(Words(Keys(data)), <<",">>)
      placeholders == Join([i \in 1..Len(Keys(data)) |-> <<"%s">>], <<",">>)
      r == ExecInsert("mysql", tbl, columns, placeholders, ValuesOf(data))
  IN  IF uniq # <<>> /\ d.raised # "" THEN d
      ELSE IF uniq # <<>> /\ d.ret = "True"
      THEN Out(db, tbl, "False", <<>>, "", d.printed \o <<"skipped">>, 0)
      ELSE LET pr == IF uniq # <<>> THEN d.printed ELSE <<>>
           IN  IF ~MysqlConnects(reach, db)
               THEN Out(db, tbl, "None", <<>>, "UnboundLocalError",
                        pr \o <<"error">>, 0)
               ELSE IF r.err
               THEN Out(db, tbl, "False", <<>>, "", pr \o <<"error">>, 0)
               ELSE Out(db, r.tbl, "True", <<>>, "", pr \o <<"inserted">>, 0)

Insert(k, db, tbl, reach, data, uniq) ==
  IF k = "sqlite" THEN SqliteInsert(db, tbl, reach, data, uniq)
  ELSE MysqlInsert(db, tbl, reach, data, uniq)

\* SqliteDB.update(database, table_name, data, condition): it takes no
\* params, so a call that passes them raises TypeError before the body runs,
\* and the statement is executed with the SET values alone.
SqliteUpdate(db, tbl, reach, data, cond, hasParams, params) ==
  LET set_clause == Join([i \in 1..Len(Keys(data)) |->
                            <<Keys(data)[i], "=", "?">>], <<",">>)
      r == ExecUpdate("sqlite", tbl, set_clause, cond, ValuesOf(data))
  IN  IF hasParams THEN Out(db, tbl, "None", <<>>, "TypeError", <<>>, 0)
      ELSE IF ~SqliteConnects(reach)
      THEN Out(db, tbl, "None", <<>>, "OperationalError", <<>>, 0)
      ELSE IF r.err THEN Out(TRUE, tbl, "None", <<>>, "", <<"error">>, 0)
      ELSE Out(TRUE, r.tbl, "None", <<>>, "", <<>>, 0)

\* MysqlDB.update(table_name, data, condition, params): params is required.
MysqlUpdate(db, tbl, reach, data, cond, hasParams, params) ==
  LET set_clause == Join([i \in 1..Len(Keys(data)) |->
                            <<Keys(data)[i], "=", "%s">>], <<",">>)
      r == ExecUpdate("mysql", tbl, set_clause, cond, ValuesOf(data) \o params)
  IN  IF ~hasParams THEN Out(db, tbl, "None", <<>>, "TypeError", <<>>, 0)
      ELSE IF ~MysqlConnects(reach, db)
      THEN Out(db, tbl, "None", <<>>, "UnboundLocalError", <<"error">>, 0)
      ELSE IF r.err THEN Out(db, tbl, "None", <<>>, "", <<"error">>, 0)
      ELSE Out(db, r.tbl, "None", <<>>, "", <<>>, 0)

Update(k, db, tbl, reach, data, cond, hasParams, params) ==
  IF k = "sqlite" THEN SqliteUpdate(db, tbl, reach, data, cond, hasParams, params)
  ELSE MysqlUpdate(db, tbl, reach, data, cond, hasParams, params)

\* SqliteDB.delete
SqliteDelete(db, tbl, reach, cond, params) ==
  LET r == ExecDelete("sqlite", tbl, cond, params)
  IN  IF ~SqliteConnects(reach)
      THEN Out(db, tbl, "None", <<>>, "OperationalError", <<>>, 0)
      ELSE IF r.err THEN Out(TRUE, tbl, "None", <<>>, "", <<"error">>, 0)
      ELSE Out(TRUE, r.tbl, "None", <<>>, "", <<>>, 0)

\* MysqlDB.delete
MysqlDelete(db, tbl, reach, cond, params) ==
  LET r == ExecDelete("mysql", tbl, cond, params)
  IN  IF ~MysqlConnects(reach, db)
      THEN Out(db, tbl, "None", <<>>, "UnboundLocalError", <<"error">>, 0)
      ELSE IF r.err THEN Out(db, tbl, "None", <<>>, "", <<"error">>, 0)
      ELSE Out(db, r.tbl, "None", <<>>, "", <<>>, 0)

Delete(k, db, tbl, reach, cond, params) ==
  IF k = "sqlite" THEN SqliteDelete(db, tbl, reach, cond, params)
  ELSE MysqlDelete(db, tbl, reach, cond, params)

\* SqliteDB.select: a list of columns is joined with ", "; the WHERE clause
\* is appended when the condition is not empty.
SqliteSelect(db, tbl, reach, columns, cond, params) ==
  LET text == IF columns.isList THEN Join(Words(columns.items), <<",">>)
              ELSE columns.items
      r == ExecSelect("sqlite", tbl, text, cond # <<>>, cond, params)
  IN  IF ~SqliteConnects(reach)
      THEN Out(db, tbl, "None", <<>>, "OperationalError", <<>>, 0)
      ELSE IF r.err THEN Out(TRUE, tbl, "rows", <<>>, "", <<"error">>, 0)
      ELSE Out(TRUE, tbl, "rows", r.rows, "", <<>>, 0)

\* MysqlDB.select: columns is interpolated as it is, a list as its repr.
MysqlSelect(db, tbl, reach, columns, cond, params) ==
  LET text == IF columns.isList THEN ReprList(columns.items)
              ELSE columns.items
      r == ExecSelect("mysql", tbl, text, cond # <<>>, cond, params)
  IN  IF ~MysqlConnects(reach, db)
      THEN Out(db, tbl, "None", <<>>, "UnboundLocalError", <<"error">>, 0)
      ELSE IF r.err THEN Out(db, tbl, "rows", <<>>, "", <<"error">>, 0)
      ELSE Out(db, tbl, "rows", r.rows, "", <<>>, 0)

Select(k, db, tbl, reach, columns, cond, params) ==
  IF k = "sqlite" THEN SqliteSelect(db, tbl, reach, columns, cond, params)
  ELSE MysqlSelect(db, tbl, reach, columns, cond, params)

\* f'{column[0]} {column[1]} {column[2]}' for every column, joined by ", ".
\* A column tuple with fewer than three items raises IndexError.
WellFormed(columns) == \A i \in 1..Len(columns) : Len(columns[i]) >= 3
ColumnDefinitions(columns) ==
  Join([i \in 1..Len(columns) |->
          <<columns[i][1], columns[i][2]>>
          \o (IF columns[i][3] = "" THEN <<>> ELSE <<columns[i][3]>>)],
       <<",">>)

\* SqliteDB.table (foreign_keys=None): the connection is opened and the
\* column definitions are rendered before the try statement.
SqliteTable(db, tbl, reach, columns) ==
  IF ~SqliteConnects(reach)
  THEN Out(db, tbl, "None", <<>>, "OperationalError", <<>>, 0)
  ELSE IF ~WellFormed(columns)
  THEN Out(TRUE, tbl, "None", <<>>, "IndexError", <<>>, 1)
  ELSE LET r == ExecCreateTable(tbl, ColumnDefinitions(columns))
       IN  IF r.err THEN Out(TRUE, tbl, "None", <<>>, "", <<"error">>, 0)
           ELSE Out(TRUE, r.tbl, "None", <<>>, "", <<>>, 0)

\* MysqlDB.table (foreign_keys=None): everything is inside the try statement.
MysqlTable(db, tbl, reach, columns) ==
  IF ~MysqlConnects(reach, db)
  THEN Out(db, tbl, "None", <<>>, "UnboundLocalError", <<"error">>, 0)
  ELSE IF ~WellFormed(columns)
  THEN Out(db, tbl, "None", <<>>, "IndexError", <<>>, 0)
  ELSE LET r == ExecCreateTable(tbl, ColumnDefinitions(columns))
       IN  IF r.err THEN Out(db, tbl, "None", <<>>, "", <<"error">>, 0)
           ELSE Out(db, r.tbl, "None", <<>>, "", <<>>, 0)

Table(k, db, tbl, reach, columns) ==
  IF k = "sqlite" THEN SqliteTable(db, tbl, reach, columns)
  ELSE MysqlTable(db, tbl, reach, columns)

\* The tables of the database that exist, by name.  (The order of a listing
\* is the backend's; it is taken as the order of the names.)
ListedNames(tbls) ==
  SelectSeq(TableOrder, LAMBDA n : n \in DOMAIN tbls /\ tbls[n].exists)

\* SqliteDB.get_tables: the names as one-column rows.  A failed connect leaves
\* conn unbound for the finally clause.
SqliteGetTables(db, tbl, reach, tbls) ==
  IF ~SqliteConnects(reach)
  THEN Out(db, tbl, "None", <<>>, "UnboundLocalError", <<"error">>, 0)
  ELSE Out(TRUE, tbl, "rows",
           [i \in 1..Len(ListedNames(tbls)) |-> <<ListedNames(tbls)[i]>>],
           "", <<>>, 0)

\* MysqlDB.get_tables: the names.
MysqlGetTables(db, tbl, reach, tbls) ==
  IF ~MysqlConnects(reach, db)
  THEN Out(db, tbl, "None", <<>>, "UnboundLocalError", <<"error">>, 0)
  ELSE Out(db, tbl, "rows", ListedNames(tbls), "", <<>>, 0)

GetTables(k, db, tbl, reach, tbls) ==
  IF k = "sqlite" THEN SqliteGetTables(db, tbl, reach, tbls)
  ELSE MysqlGetTables(db, tbl, reach, tbls)

\* A DROP TABLE that never takes effect.
SqliteDelTableKept(db, tbl, reach) ==
  IF ~SqliteConnects(reach)
  THEN Out(db, tbl, "None", <<>>, "UnboundLocalError", <<"error">>, 0)
  ELSE Out(TRUE, tbl, "None", <<>>, "", <<"deleted">>, 0)

\* SqliteDB.del_table: DROP TABLE IF EXISTS <t>
SqliteDelTable(db, tbl, reach) ==
  IF ~SqliteConnects(reach)
  THEN Out(db, tbl, "None", <<>>, "UnboundLocalError", <<"error">>, 0)
  ELSE Out(TRUE, NoTable, "None", <<>>, "", <<"deleted">>, 0)

\* MysqlDB.del_table
MysqlDelTable(db, tbl, reach) ==
  IF ~MysqlConnects(reach, db)
  THEN Out(db, tbl, "None", <<>>, "UnboundLocalError", <<"error">>, 0)
  ELSE Out(db, NoTable, "None", <<>>, "", <<"deleted">>, 0)

DelTable(k, db, tbl, reach) ==
  IF k = "sqlite" THEN SqliteDelTable(db, tbl, reach)
  ELSE MysqlDelTable(db, tbl, reach)

\* --------------------------------------------------------------- the caller
\* The arguments the caller passes.
UniqueInputs == {<<>>, <<"email">>, <<"name">>, <<"email", "name">>}
CondInputs(k) ==
  {<<>>, <<"email", "=", Placeholder(k)>>, <<"name", "=", Placeholder(k)>>,
   <<"email", "=", "'x'">>, <<"email", "=">>}
ParamInputs == {<<>>, <<"x">>, <<"y">>}
UpdateInputs ==
  {<<>>, "email" :> "y", "email" :> Null, "name" :> "y",
   ("email" :> "x" @@ "name" :> "y")}
ColumnsInputs ==
  {[isList |-> FALSE, items |-> <<"*">>],
   [isList |-> FALSE, items |-> <<"name">>],
   [isList |-> FALSE, items |-> <<"email", ",", "name">>],
   [isList |-> TRUE, items |-> <<"name">>],
   [isList |-> TRUE, items |-> <<"email", "name">>]}
ColumnDefInputs ==
  {<<<<"email", "TEXT", "">>, <<"name", "TEXT", "">>>>,
   <<<<"email", "TEXT", "UNIQUE">>, <<"name", "TEXT", "">>>>,
   <<<<"email", "TEXT", "">>>>,
   <<<<"email", "TEXT">>>>}

\* No two concurrent insert calls are in progress.
NoRace ==
  [table |-> "", data |-> <<>>, uniq |-> <<>>, before |-> NoTable,
   pc |-> <<"idle", "idle">>, ret |-> <<"None", "None">>, overlap |-> FALSE]

\* No call is in progress and none has returned since the caller last looked.
NoCall ==
  [op |-> "none", table |-> "", reach |-> TRUE, data |-> <<>>, uniq |-> <<>>,
   columns |-> [isList |-> FALSE, items |-> <<>>], cond |-> <<>>,
   hasParams |-> FALSE, params |-> <<>>, defs |-> <<>>,
   dbBefore |-> FALSE, before |-> NoTable,
   ret |-> "None", rows |-> <<>>, raised |-> "", printed |-> <<>>, leaked |-> 0]

Init ==
  /\ kind \in {"sqlite", "mysql"}
  /\ inst = FALSE
  /\ dbExists \in BOOLEAN
  /\ tables = [t \in TableNames |-> NoTable]
  /\ open = 0
  /\ last = NoCall
  /\ race = NoRace

\* SqliteDB's operations are static; MysqlDB's read self.db_config, which
\* __init__ binds before the statement that raises.
Callable == last.op = "none" /\ (kind = "sqlite" \/ inst)

\* The call `c` on table `t` takes effect as `out` and the caller observes it.
Effect(c, t, out) ==
  /\ Len(out.tbl.rows) <= MaxRows
  /\ open + out.leaked <= MaxOpen
  /\ dbExists' = out.dbExists
  /\ tables' = [tables EXCEPT ![t] = out.tbl]
  /\ open' = open + out.leaked
  /\ last' = [c EXCEPT !.table = t, !.dbBefore = dbExists,
                       !.before = tables[t], !.ret = out.ret,
                       !.rows = out.rows, !.raised = out.raised,
                       !.printed = out.printed, !.leaked = out.leaked]
  /\ UNCHANGED race

DoInit ==
  /\ last.op = "none"
  /\ \E t \in DOMAIN tables, reach \in BOOLEAN :
       Effect([NoCall EXCEPT !.op = "init", !.reach = reach], t,
              IF kind = "sqlite" THEN SqliteInit(dbExists, tables[t], reach)
              ELSE MysqlInit(dbExists, tables[t], reach))
  /\ inst' = TRUE
  /\ UNCHANGED kind

DoCreate ==
  /\ last.op = "none" /\ inst
  /\ \E t \in DOMAIN tables, reach \in BOOLEAN :
       Effect([NoCall EXCEPT !.op = "create", !.reach = reach], t,
              IF kind = "sqlite" THEN SqliteCreate(dbExists, tables[t], reach)
              ELSE MysqlCreate(dbExists, tables[t], reach))
  /\ UNCHANGED <<kind, inst>>

DoIsDuplicate ==
  /\ Callable
  /\ \E t \in DOMAIN tables, reach \in BOOLEAN, data \in Dicts, uniq \in UniqueInputs :
       Effect([NoCall EXCEPT !.op = "is_duplicate", !.reach = reach,
                             !.data = data, !.uniq = uniq], t,
              IsDuplicate(kind, dbExists, tables[t], reach, data, uniq))
  /\ UNCHANGED <<kind, inst>>

DoInsert ==
  /\ Callable
  /\ \E t \in DOMAIN tables, reach \in BOOLEAN, data \in Dicts, uniq \in UniqueInputs :
       Effect([NoCall EXCEPT !.op = "insert", !.reach = reach,
                             !.data = data, !.uniq = uniq], t,
              Insert(kind, dbExists, tables[t], reach, data, uniq))
  /\ UNCHANGED <<kind, inst>>

DoUpdate ==
  /\ Callable
  /\ \E t \in DOMAIN tables, reach \in BOOLEAN, data \in UpdateInputs,
        cond \in CondInputs(kind), hasParams \in BOOLEAN, params \in ParamInputs :
       /\ ~hasParams => params = <<>>
       /\ Effect([NoCall EXCEPT !.op = "update", !.reach = reach, !.data = data,
                                !.cond = cond, !.hasParams = hasParams,
                                !.params = params], t,
                 Update(kind, dbExists, tables[t], reach, data, cond,
                        hasParams, params))
  /\ UNCHANGED <<kind, inst>>

DoDelete ==
  /\ Callable
  /\ \E t \in DOMAIN tables, reach \in BOOLEAN,
        cond \in CondInputs(kind), params \in ParamInputs :
       Effect([NoCall EXCEPT !.op = "delete", !.reach = reach, !.cond = cond,
                             !.hasParams = TRUE, !.params = params], t,
              Delete(kind, dbExists, tables[t], reach, cond, params))
  /\ UNCHANGED <<kind, inst>>

DoSelect ==
  /\ Callable
  /\ \E t \in DOMAIN tables, reach \in BOOLEAN, columns \in ColumnsInputs,
        cond \in CondInputs(kind), params \in ParamInputs :
       Effect([NoCall EXCEPT !.op = "select", !.reach = reach,
                             !.columns = columns, !.cond = cond,
                             !.hasParams = TRUE, !.params = params], t,
              Select(kind, dbExists, tables[t], reach, columns, cond, params))
  /\ UNCHANGED <<kind, inst>>

DoTable ==
  /\ Callable
  /\ \E t \in DOMAIN tables, reach \in BOOLEAN, columns \in ColumnDefInputs :
       Effect([NoCall EXCEPT !.op = "table", !.reach = reach, !.defs = columns],
              t, Table(kind, dbExists, tables[t], reach, columns))
  /\ UNCHANGED <<kind, inst>>

DoGetTables ==
  /\ Callable
  /\ \E t \in {TableOrder[1]}, reach \in BOOLEAN :
       Effect([NoCall EXCEPT !.op = "get_tables", !.reach = reach], t,
              GetTables(kind, dbExists, tables[t], reach, tables))
  /\ UNCHANGED <<kind, inst>>

DoDelTable ==
  /\ Callable
  /\ \E t \in DOMAIN tables, reach \in BOOLEAN :
       Effect([NoCall EXCEPT !.op = "del_table", !.reach = reach], t,
              DelTable(kind, dbExists, tables[t], reach))
  /\ UNCHANGED <<kind, inst>>

\* The caller has looked at the outcome and goes on to its next call.
Return ==
  /\ last.op \notin {"none", "race"}
  /\ last' = NoCall
  /\ UNCHANGED <<kind, inst, dbExists, tables, open, race>>

Next ==
  \/ DoInit \/ DoCreate \/ DoIsDuplicate \/ DoInsert \/ DoUpdate \/ DoDelete
  \/ DoSelect \/ DoTable \/ DoGetTables \/ DoDelTable \/ Return

Spec == Init /\ [][Next]_vars

\* --- a database with two tables
\* The rows the callers of the two-table database insert.
RowInputs == {("email" :> "x"), ("email" :> "x") @@ ("name" :> "y")}

InitTables ==
  /\ kind \in {"sqlite", "mysql"}
  /\ inst = FALSE
  /\ dbExists \in BOOLEAN
  /\ tables = [t \in Range(TableOrder) |-> NoTable]
  /\ open = 0
  /\ last = NoCall
  /\ race = NoRace

\* insert(table, data) without unique_columns.
DoInsertRow ==
  /\ Callable
  /\ \E t \in DOMAIN tables, reach \in BOOLEAN, data \in RowInputs :
       Effect([NoCall EXCEPT !.op = "insert", !.reach = reach, !.data = data], t,
              Insert(kind, dbExists, tables[t], reach, data, <<>>))
  /\ UNCHANGED <<kind, inst>>

NextTables ==
  \/ DoInit \/ DoCreate \/ DoInsertRow \/ DoTable \/ DoGetTables \/ DoDelTable
  \/ Return

SpecTables == InitTables /\ [][NextTables]_vars

\* --- two concurrent insert calls
\* Two callers, each in a process of its own, call insert(table, data,
\* unique_columns) with the same arguments on a reachable backend.  A call is
\* two statements on two connections: the SELECT COUNT(*) of is_duplicate and
\* the INSERT; the backend executes each statement atomically.
Callers == {1, 2}

StartRace ==
  /\ Callable
  /\ kind = "mysql" => dbExists
  /\ \E t \in DOMAIN tables, data \in Dicts, uniq \in UniqueInputs \ {<<>>} :
       /\ Len(tables[t].rows) + 2 <= MaxRaceRows
       /\ race' = [NoRace EXCEPT !.table = t, !.data = data, !.uniq = uniq,
                                 !.before = tables[t],
                                 !.pc = <<"check", "check">>]
       /\ last' = [NoCall EXCEPT !.op = "race", !.table = t]
  /\ UNCHANGED <<kind, inst, dbExists, tables, open>>

\* Caller p never looks for a duplicate.
CheckSkipped(p) ==
  /\ race.pc[p] = "check"
  /\ race' = [race EXCEPT !.pc[p] = "insert"]
  /\ UNCHANGED <<kind, inst, dbExists, tables, open, last>>

\* `unique_columns and is_duplicate(...)` of caller p: a duplicate ends the
\* call with False, otherwise the call goes on to its INSERT.  The check
\* overlaps the other call when that call has checked and not yet inserted.
Check(p) ==
  /\ race.pc[p] = "check"
  /\ LET d == IsDuplicate(kind, dbExists, tables[race.table], TRUE,
                          race.data, race.uniq)
         q == CHOOSE c \in Callers : c # p
     IN  /\ dbExists' = d.dbExists
         /\ race' = IF d.ret = "True"
                    THEN [race EXCEPT !.pc[p] = "done", !.ret[p] = "False"]
                    ELSE [race EXCEPT !.pc[p] = "insert",
                                      !.overlap = @ \/ race.pc[q] = "insert"]
  /\ UNCHANGED <<kind, inst, tables, open, last>>

\* The rest of insert of caller p: connect, INSERT, commit, return.
Put(p) ==
  /\ race.pc[p] = "insert"
  /\ LET out == Insert(kind, dbExists, tables[race.table], TRUE, race.data, <<>>)
     IN  /\ dbExists' = out.dbExists
         /\ tables' = [tables EXCEPT ![race.table] = out.tbl]
         /\ race' = [race EXCEPT !.pc[p] = "done", !.ret[p] = out.ret]
  /\ UNCHANGED <<kind, inst, open, last>>

NextRace ==
  \/ DoInit \/ DoCreate \/ DoInsertRow \/ DoTable \/ Return
  \/ StartRace
  \/ \E p \in Callers : Check(p)
  \/ \E p \in Callers : Put(p)

SpecRace == Init /\ [][NextRace]_vars

\* ------------------------------------------------------------------ claims
\* The last call reached the database: the backend was reachable and, for
\* MysqlDB, the database its connection selects existed.
Connected == last.reach /\ (kind = "mysql" => last.dbBefore)

\* The last call printed the message.
Printed(msg) == msg \in Range(last.printed)

\* The columns of the table the last call found, as a set.
ColsBefore == Range(last.before.cols)

\* Row i of the table before the last call agrees with the call's data on
\* every unique column, by Python equality (None equals None).
SameValues(i) ==
  \A c \in Range(last.uniq) :
    c \in DOMAIN last.data /\ c \in ColsBefore
    /\ last.before.rows[i][c] = last.data[c]

\* The same with no NULL among the agreeing values.
SameNonNullValues(i) ==
  \A c \in Range(last.uniq) :
    c \in DOMAIN last.data /\ c \in ColsBefore
    /\ SqlEq(last.before.rows[i][c], last.data[c])

\* The skipped outcome of insert: the skip message, False returned, and the
\* table as it was.
SkippedUnchanged ==
  /\ last.raised = "" /\ last.ret = "False" /\ Printed("skipped")
  /\ tables[last.table] = last.before

\* C1 as stated: an insert whose non-empty unique_columns all have, in some
\* existing row, the same values as the new row is skipped and leaves the
\* table as it was.
C1_SameValuesSkipped ==
  (last.op = "insert" /\ Connected /\ last.uniq # <<>>
   /\ \E i \in 1..Len(last.before.rows) : SameValues(i))
  => SkippedUnchanged

\* C1 amended: an insert whose non-empty unique_columns all have, in some
\* existing row, the same non-NULL values as the new row is skipped (False
\* returned after the skip message) and leaves the table as it was.
C1_SameNonNullValuesSkipped ==
  (last.op = "insert" /\ Connected /\ last.uniq # <<>>
   /\ \E i \in 1..Len(last.before.rows) : SameNonNullValues(i))
  => SkippedUnchanged

C1_Witness ==
  /\ last.op = "insert" /\ Connected /\ last.uniq = <<"email", "name">>
  /\ \E i \in 1..Len(last.before.rows) : SameNonNullValues(i)
  /\ Len(last.before.rows) = 2
  /\ SkippedUnchanged

\* The unique columns that are keys of the row of the last call.
PresentUnique == {c \in Range(last.uniq) : c \in DOMAIN last.data}

\* C2: is_duplicate compares exactly the unique columns that are keys of the
\* row, and returns True iff there is such a column and some existing row
\* equals the new row on all of them; unique columns absent from the row play
\* no part.
C2_DuplicateOverPresentColumns ==
  (last.op = "is_duplicate" /\ Connected)
  => /\ last.raised = ""
     /\ last.ret = "True" <=>
          /\ PresentUnique # {}
          /\ PresentUnique \subseteq ColsBefore
          /\ \E i \in 1..Len(last.before.rows) :
               \A c \in PresentUnique :
                 SqlEq(last.before.rows[i][c], last.data[c])

\* C3: the value insert returns when it skips a duplicate differs from the
\* value it returns when the INSERT statement fails on the same table.
C3_SkipDistinctFromFailure ==
  (last.op = "insert" /\ Connected /\ Printed("skipped"))
  => \A data \in Dicts :
       LET o == Insert(kind, TRUE, last.before, TRUE, data, <<>>)
       IN  (o.raised = "" /\ "error" \in Range(o.printed)) => o.ret # last.ret

\* The rows an UPDATE of the last call's data leaves, when it applies to the
\* rows whose column `col` equals `val`.
UpdatedRows(col, val) ==
  [i \in 1..Len(last.before.rows) |->
     IF SqlEq(last.before.rows[i][col], val)
     THEN [c \in ColsBefore |->
             IF c \in DOMAIN last.data THEN last.data[c]
             ELSE last.before.rows[i][c]]
     ELSE last.before.rows[i]]

\* C4: an update whose condition "col = <placeholder>" is filled from params
\* and satisfied by some row, and whose statement the table accepts, sets the
\* columns of the row on the rows that satisfy the condition and changes
\* nothing else.
C4_UpdateSetsMatchingRows ==
  (/\ last.op = "update" /\ Connected /\ last.hasParams
   /\ Len(last.cond) = 3 /\ last.cond[3] = Placeholder(kind)
   /\ Len(last.params) = 1
   /\ last.before.exists /\ last.cond[1] \in ColsBefore
   /\ \E i \in 1..Len(last.before.rows) :
        SqlEq(last.before.rows[i][last.cond[1]], last.params[1])
   /\ DOMAIN last.data # {} /\ DOMAIN last.data \subseteq ColsBefore
   /\ UniqueOk(last.before.uniq, UpdatedRows(last.cond[1], last.params[1])))
  => /\ last.raised = ""
     /\ tables[last.table] =
          [last.before EXCEPT
             !.rows = UpdatedRows(last.cond[1], last.params[1])]

\* C5: no connection stays open after an operation.
C5_NoOpenConnection == open = 0

\* C6: no operation lets an exception escape when the backend is unreachable.
C6_NoEscapeWhenUnreachable ==
  (last.op \notin {"none", "init"} /\ ~last.reach) => last.raised = ""

\* C7: constructing an adapter, or calling create, with the backend reachable
\* succeeds, leaves the database existing, and changes nothing when it existed.
C7_EnsureDatabaseExists ==
  (last.op \in {"init", "create"} /\ last.reach)
  => /\ last.raised = ""
     /\ dbExists
     /\ last.dbBefore => tables[last.table] = last.before

\* The last call is an insert that reached the database and whose
\* unique_columns is empty or names no key of the row.
NoUniqueKeyInsert ==
  last.op = "insert" /\ Connected /\ PresentUnique = {}

\* The row the last insert stores: its data, NULL in the other columns.
StoredTuple ==
  [j \in 1..Len(last.before.cols) |->
     IF last.before.cols[j] \in DOMAIN last.data
     THEN last.data[last.before.cols[j]] ELSE Null]

\* A select of every column of the table, after the last call, returns the
\* row of the last call.
SelectReturnsRow ==
  LET o == Select(kind, dbExists, tables[last.table], TRUE,
                  [isList |-> FALSE, items |-> <<"*">>], <<>>, <<>>)
  IN  o.ret = "rows" /\ StoredTuple \in Range(o.rows)

\* C8 as stated, for a non-empty row of the table's columns: an insert with
\* no unique column among the row's keys reports True and a following select
\* returns the row.
C8_AlwaysInserted ==
  (/\ NoUniqueKeyInsert
   /\ last.before.exists
   /\ DOMAIN last.data # {} /\ DOMAIN last.data \subseteq ColsBefore)
  => last.ret = "True" /\ SelectReturnsRow

\* The table before the last insert accepts the row: it exists, has the
\* row's columns, and no UNIQUE column already holds the row's value.  (Only
\* MySQL accepts the statement of an empty row.)
InsertAccepted ==
  /\ last.before.exists
  /\ DOMAIN last.data \subseteq ColsBefore
  /\ DOMAIN last.data # {} \/ kind = "mysql"
  /\ \A u \in last.before.uniq \cap DOMAIN last.data :
       \A i \in 1..Len(last.before.rows) :
         ~SqlEq(last.before.rows[i][u], last.data[u])

\* C8 amended: an insert with no unique column among the row's keys is never
\* skipped as a duplicate; when the table accepts the row it reports True and
\* a following select returns the row, and otherwise it reports False and
\* the table is as it was.
C8_InsertedWhenAccepted ==
  NoUniqueKeyInsert
  => /\ last.raised = "" /\ ~Printed("skipped")
     /\ InsertAccepted => last.ret = "True" /\ SelectReturnsRow
     /\ ~InsertAccepted => last.ret = "False" /\ tables[last.table] = last.before

C8_Witness ==
  /\ NoUniqueKeyInsert /\ InsertAccepted
  /\ last.uniq = <<"name">> /\ DOMAIN last.data = {"email"}
  /\ Len(last.before.rows) = 1
  /\ last.ret = "True" /\ SelectReturnsRow

\* C9: a select whose statement failed does not return what a select that
\* matched no row returns, the empty sequence.
C9_SelectErrorDistinct ==
  (last.op = "select" /\ Connected /\ Printed("error"))
  => ~(last.ret = "rows" /\ last.rows = <<>>)

\* C10: a select given its columns as a sequence of names returns what the
\* select given the same names as one comma-joined string returns.
C10_SequenceAsJoinedString ==
  (last.op = "select" /\ Connected /\ last.columns.isList)
  => LET joined == [isList |-> FALSE,
                    items |-> Join(Words(last.columns.items), <<",">>)]
         o == Select(kind, last.dbBefore, last.before, TRUE, joined,
                     last.cond, last.params)
     IN  last.ret = o.ret /\ last.rows = o.rows

\* The names the last get_tables returned.
Listed ==
  {IF kind = "sqlite" THEN last.rows[i][1] ELSE last.rows[i] :
     i \in 1..Len(last.rows)}

\* C11: on a reachable backend, del_table(name) raises nothing, leaves name
\* absent and every other table as it was (so dropping an absent name, a second
\* drop included, changes nothing); an absent name becomes present only by
\* table(name, ...); and get_tables never lists an absent name.
C11_DroppedUntilCreated ==
  [][/\ (last'.op = "del_table" /\ Connected')
        => /\ last'.raised = ""
           /\ ~Printed("error")'
           /\ ~tables'[last'.table].exists
           /\ \A n \in DOMAIN tables \ {last'.table} : tables'[n] = tables[n]
           /\ ~tables[last'.table].exists => tables' = tables
     /\ \A n \in DOMAIN tables :
          (~tables[n].exists /\ tables'[n].exists)
            => (last'.op = "table" /\ last'.table = n)
     /\ (last'.op = "get_tables" /\ Connected')
        => /\ last'.raised = ""
           /\ \A n \in DOMAIN tables : ~tables'[n].exists => n \notin Listed'
    ]_vars

\* del_table of an absent name beside a table that exists, on a reachable backend.
C11_Witness ==
  /\ last.op = "del_table" /\ Connected /\ last.raised = ""
  /\ ~last.before.exists
  /\ \E n \in DOMAIN tables : tables[n].exists /\ Len(tables[n].rows) > 0

\* The column names of the definitions of the last table call.
DefinedCols == [i \in 1..Len(last.defs) |-> last.defs[i][1]]

RaceDone == last.op = "race" /\ \A p \in Callers : race.pc[p] = "done"

\* The two calls carry values on every unique column, for columns of the
\* table, which exists.
RaceOnTable ==
  /\ race.before.exists
  /\ Range(race.uniq) \subseteq DOMAIN race.data
  /\ DOMAIN race.data \subseteq Range(race.before.cols)

\* No row of the table before the two calls has the values of the calls on
\* every unique column, by Python equality (None equals None).
NoMatchingRow ==
  \A i \in 1..Len(race.before.rows) :
    \E c \in Range(race.uniq) : race.before.rows[i][c] # race.data[c]

\* The number of rows the two calls added.
RaceInserted == Len(tables[race.table].rows) - Len(race.before.rows)

\* The calls did not overlap: one returned before the other began.
Sequential == ~race.overlap

\* The table, as it was before the two calls, accepts the row.
RaceRowAccepted ==
  Insert(kind, TRUE, race.before, TRUE, race.data, <<>>).ret = "True"

\* The last two rows of the table are equal on the unique columns.
TwoEqualRows ==
  LET rows == tables[race.table].rows
  IN  /\ Len(rows) >= 2
      /\ \A c \in Range(race.uniq) : rows[Len(rows)][c] = rows[Len(rows) - 1][c]

\* C13 as stated, its sequential half: two insert calls with the same values
\* on the same non-empty unique_columns, on a table holding no matching row,
\* add exactly one row when they do not overlap.
C13_SequentialInsertsOne ==
  (RaceDone /\ RaceOnTable /\ NoMatchingRow /\ Sequential)
    => RaceInserted = 1

\* C13, amended: with no NULL among the values on the unique columns and a
\* row the table accepts, two insert calls that do not overlap add exactly one
\* row (one reports True, the other False), and two calls that both check
\* before either inserts, on a table with no UNIQUE constraint on a column
\* of the row, both report True and add two rows equal on the unique columns.
C13_OneRowUnlessOverlapped ==
  (/\ RaceDone /\ RaceOnTable /\ NoMatchingRow
   /\ \A c \in Range(race.uniq) : race.data[c] # Null
   /\ RaceRowAccepted)
    => /\ Sequential
          => /\ RaceInserted = 1
             /\ \E p \in Callers :
                  /\ race.ret[p] = "True"
                  /\ \A q \in Callers \ {p} : race.ret[q] = "False"
       /\ (~Sequential /\ race.before.uniq \cap DOMAIN race.data = {})
          => /\ \A p \in Callers : race.ret[p] = "True"
             /\ RaceInserted = 2
             /\ TwoEqualRows

\* Both calls checked before either inserted, on a table that held a row not
\* matching: both report True and the table ends with two rows equal on the
\* unique columns.
C13_Witness ==
  /\ RaceDone /\ RaceOnTable /\ NoMatchingRow /\ ~Sequential
  /\ \A c \in Range(race.uniq) : race.data[c] # Null
  /\ Len(race.before.rows) > 0
  /\ \A p \in Callers : race.ret[p] = "True"
  /\ RaceInserted = 2
  /\ TwoEqualRows

====
